---------------------------- MODULE Spec2Model ----------------------------
(***************************************************************************)
(* Model of dataclass_wizard/v1/decorators.py:                             *)
(* setup_recursive_safe_function and the wrapper (_wrapper_logic) it       *)
(* returns.                                                                *)
(*                                                                         *)
(* Strings that are cut or assembled at underscores (func.__name__, the    *)
(* reserved procedure names, cls_name, tp.name, the fn_name template) are  *)
(* modelled by their list of '_'-separated tokens: the Python string s is  *)
(* the sequence s.split('_'), so "load_to_dataclass" is                    *)
(* <<"load","to","dataclass">>, "_load_" followed by more text starts with *)
(* <<"","load">>, and a + '_' + b is a \o b.  Two Python strings are equal *)
(* exactly when their token lists are equal.                               *)
(***************************************************************************)
EXTENDS Integers, Sequences, FiniteSets, TLC

VARIABLES
    wrapperOf,   \* per top-level compile: the decorated compiler used for record types
    callerCls,   \* per top-level compile: the class context its caller passes as _cls
    contexts,    \* per top-level compile: the caller's extras dict
    guards,      \* heap of recursion_guard dicts: guard id -> (key -> procedure name)
    builders,    \* heap of FunctionBuilder objects: builder id -> sequence of definitions
    stack,       \* the Python call stack: one frame per _wrapper_logic call on a guard miss
    raising,     \* the exception that is propagating, or NoException
    nTop,        \* number of top-level wrapper calls made so far
    nFail,       \* number of times the per-field compiler has raised
    invoked,     \* history: bag of <<guard id, key>>, one copy per invocation of func
    returns,     \* history: every value a wrapper call returned, with its call
    lastRet,     \* the wrapper calls that returned in the last step (none or one)
    merged,      \* history: <<child builder, parent builder>> for every `|=` performed
    failed,      \* history: builders of the wrapper calls an exception passed through
    outcome,     \* what the last finished top-level call gave its caller
    topCalls     \* history: the top-level wrapper calls, with the guard at their entry

vars == <<wrapperOf, callerCls, contexts, guards, builders, stack, raising, nTop,
          nFail, invoked, returns, lastRet, merged, failed, outcome, topCalls>>

-----------------------------------------------------------------------------
(* Bounds of the model *)

MaxTopCalls == 2     \* top-level wrapper calls in one behaviour
MaxFailures == 1     \* times the per-field compiler raises in one behaviour

-----------------------------------------------------------------------------
(* Values *)

None == <<>>          \* Python None; no string has the empty token list

NoException == "NoException"   \* no exception is propagating

Ctxs == {1, 2}        \* two independent top-level compilations

\* str(i) for the field indexes that occur
DigitStr == <<"0", "1", "2", "3", "4", "5", "6", "7", "8", "9">>
Str(i) == <<DigitStr[i + 1]>>

\* A TypeInfo: the attributes _wrapper_logic reads
TP(origin, args, name, field_i, v) ==
    [origin |-> origin, args |-> args, name |-> name, field_i |-> field_i, v |-> v]

\* The decorated per-field compilers: func.__name__, func.__code__.co_argcount
\* (3 for a compiler that takes a class context first), and the decorator's
\* fn_name and is_generic arguments
Decorated ==
    [load    |-> [func_name |-> <<"load", "to", "dataclass">>, co_argcount |-> 2,
                  fn_name |-> None, is_generic |-> FALSE],
     dump    |-> [func_name |-> <<"dump", "from", "dataclass">>, co_argcount |-> 3,
                  fn_name |-> None, is_generic |-> FALSE],
     named   |-> [func_name |-> <<"load", "to", "dataclass">>, co_argcount |-> 2,
                  fn_name |-> <<"", "", "from", "dict", "{cls_name}", "", "">>,
                  is_generic |-> FALSE],
     generic |-> [func_name |-> <<"load", "to", "union">>, co_argcount |-> 2,
                  fn_name |-> None, is_generic |-> TRUE]]

\* Class-context values a caller passes as _cls: a class, or None
ClsValues == {"Dumper", "None"}

\* truth value of _cls
TruthyCls(_cls) == _cls # "None"

\* line 94: is_class_method = func.__code__.co_argcount == 3
IsClassMethod(w) == Decorated[w].co_argcount = 3

\* lines 96-112: wrapper_class_method hands the caller's _cls to
\* _wrapper_logic; for a plain compiler the wrapper is _wrapper_logic, called
\* with (tp, extras), and _cls keeps its default None
ClsArg(w, _cls) == IF IsClassMethod(w) THEN _cls ELSE "None"

\* lines 81, 85: func(_cls, tp, updated_extras) if _cls else func(tp, updated_extras):
\* the number of arguments func is called with
CallShape(_cls) == IF TruthyCls(_cls) THEN 3 ELSE 2

RecordWrappers == {"load", "dump", "named"}

ClsNames == {<<"A">>, <<"B">>}


-----------------------------------------------------------------------------
(* The type graph the per-field compilers walk *)

\* Record types a top-level caller asks for
TopOrigins == {"R", "Twin", "Pair"}

\* The descriptor a top-level caller builds for record type o
TopTP(o) == TP(o, <<>>, <<o>>, 0, "v1")

\* What func does when it is invoked for (w, tp): the sequence of wrapper
\* calls it makes, one per referenced type.  Record-valued fields go back to
\* the wrapper func itself is decorated with, generic slots to the
\* generic-mode wrapper.
\*   R    { s: S, r: Optional[R] }        self reference and a cycle with S
\*   S    { r: R, t: T, u: T }            the same nested type T twice
\*   T    { a: Union[int, str], b: Union[int, float] }
\*   Twin { a: x1.X, b: x2.X }            two classes with one display name
\*   Pair[int, str] { first, second }     two generic slots, both with args ()
Fields(w, tp) ==
    IF Decorated[w].is_generic THEN <<>>
    ELSE CASE tp.origin = "R" ->
                <<[w |-> w, tp |-> TP("S", <<>>, <<"S">>, 0, "v1")],
                  [w |-> w, tp |-> TP("R", <<>>, <<"R">>, 1, "v2")]>>
           [] tp.origin = "S" ->
                <<[w |-> w, tp |-> TP("R", <<>>, <<"R">>, 0, "v1")],
                  [w |-> w, tp |-> TP("T", <<>>, <<"T">>, 1, "v2")],
                  [w |-> w, tp |-> TP("T", <<>>, <<"U">>, 2, "v3")]>>
           [] tp.origin = "T" ->
                <<[w |-> "generic",
                   tp |-> TP("Union", <<"int", "str">>, <<"Union">>, 0, "v1")],
                  [w |-> "generic",
                   tp |-> TP("Union", <<"int", "float">>, <<"Union">>, 1, "v2")]>>
           [] tp.origin = "Twin" ->
                <<[w |-> w, tp |-> TP("X1", <<>>, <<"X">>, 0, "v1")],
                  [w |-> w, tp |-> TP("X2", <<>>, <<"X">>, 1, "v2")]>>
           [] tp.origin = "Pair" ->
                <<[w |-> "generic", tp |-> TP("int", <<>>, <<"int">>, 0, "v1")],
                  [w |-> "generic", tp |-> TP("str", <<>>, <<"str">>, 1, "v2")]>>
           [] OTHER -> <<>>

-----------------------------------------------------------------------------
(* Pure parts of _wrapper_logic *)

\* dict.get(k) and d[k] = v
Get(d, k) == IF k \in DOMAIN d THEN d[k] ELSE None
Put(d, k, v) == [x \in (DOMAIN d) \cup {k} |-> IF x = k THEN v ELSE d[x]]

\* truth value of an Optional[str]
Truthy(s) == s # None /\ s # <<"">>

\* line 52: cls = tp.args if is_generic else tp.origin
Key(w, tp) ==
    IF Decorated[w].is_generic
    THEN [kind |-> "args", val |-> tp.args]
    ELSE [kind |-> "origin", val |-> <<tp.origin>>]

\* line 57: func.__name__.split('_', 2)[-1]
TpName(func_name) ==
    IF Len(func_name) <= 2
    THEN <<func_name[Len(func_name)]>>
    ELSE SubSeq(func_name, 3, Len(func_name))

\* line 61: fn_name.format(cls_name=...)
RECURSIVE Format(_, _)
Format(template, cls_name) ==
    IF template = <<>> THEN <<>>
    ELSE (IF Head(template) = "{cls_name}" THEN cls_name ELSE <<Head(template)>>)
         \o Format(Tail(template), cls_name)

\* ReservedName drawing a serial number from the builders created so far
ReservedNameNumbered(w, tp, extras) ==
    <<"", "load">> \o extras.cls_name \o TpName(Decorated[w].func_name) \o tp.name
       \o Str(Len(builders) % 10)

\* ReservedName with the generic template forgotten: always tp.name
ReservedNameByName(w, tp, extras) ==
    IF Truthy(Decorated[w].fn_name)
    THEN Format(Decorated[w].fn_name, tp.name)
    ELSE <<"", "load">> \o extras.cls_name \o TpName(Decorated[w].func_name) \o tp.name

\* lines 56-66: the procedure name reserved on a guard miss
ReservedName(w, tp, extras) ==
    LET cls_name == extras.cls_name
        tp_name  == TpName(Decorated[w].func_name)
    IN  IF Truthy(Decorated[w].fn_name)
        THEN Format(Decorated[w].fn_name, tp.name)
        ELSE IF Decorated[w].is_generic
             THEN <<"", "load">> \o cls_name \o tp_name \o Str(tp.field_i)
             ELSE <<"", "load">> \o cls_name \o tp_name \o tp.name

\* CallExpr that calls the descriptor's own name, not the reserved one
CallExprOwnName(_fn_name, tp) == <<tp.name, "(", tp.v, ")">>

\* line 90: f'{_fn_name}({tp.v()})'
CallExpr(_fn_name, tp) == <<_fn_name, "(", tp.v, ")">>

\* line 68 as a rebinding of the guard to a mapping with the one new entry
ReserveAlone(guard, cls, _fn_name) == [x \in {cls} |-> _fn_name]

\* Reserve with the write to the guard forgotten
ReserveNothing(guard, cls, _fn_name) == guard

\* line 68: recursion_guard[cls] = _fn_name
Reserve(guard, cls, _fn_name) == Put(guard, cls, _fn_name)

-----------------------------------------------------------------------------
(* FunctionBuilder *)

\* the definition `with fn_gen.function(name, ['v1'], MISSING, _locals)` seals
Definition(f) ==
    [name |-> f.fn_name, args |-> <<"v1">>, locals |-> f.updated_extras.locals,
     body |-> f.body]

DefinedNames(builder) == {builder[i].name : i \in 1..Len(builder)}

\* `main |= new` meets a name that main already defines
Collides(main, new) == DefinedNames(main) \cap DefinedNames(new) # {}

\* `main |= new`: main absorbs new's definitions, in insertion order
Merge(main, new) == main \o new

-----------------------------------------------------------------------------
(* State machine *)

\* Each top-level compilation gets its own empty recursion guard (guard c),
\* its own FunctionBuilder (builder c), the display name of its record and
\* empty locals.  The two compilations are interchangeable, so the first is
\* taken to be a loader of a record named A.  The caller of a compiler that
\* takes a class context passes a class or None; the class context is not
\* looked at for a plain compiler.
Init ==
    /\ wrapperOf \in {f \in [Ctxs -> RecordWrappers] : f[1] # "dump"}
    /\ callerCls \in {f \in [Ctxs -> ClsValues] :
                        \A c \in Ctxs : ~IsClassMethod(wrapperOf[c]) => f[c] = "Dumper"}
    /\ \E names \in {n \in [Ctxs -> ClsNames] : n[1] = <<"A">>} :
         contexts = [c \in Ctxs |->
                       [recursion_guard |-> c, fn_gen |-> c,
                        cls_name |-> names[c], locals |-> {}]]
    /\ guards = [c \in Ctxs |-> <<>>]
    /\ builders = [c \in Ctxs |-> <<>>]
    /\ stack = <<>>
    /\ raising = NoException
    /\ nTop = 0
    /\ nFail = 0
    /\ invoked = <<>>
    /\ returns = {}
    /\ lastRet = {}
    /\ merged = {}
    /\ failed = {}
    /\ outcome = [kind |-> "none", value |-> "none"]
    /\ topCalls = <<>>

Top == stack[Len(stack)]
Pop == SubSeq(stack, 1, Len(stack) - 1)

\* The wrapper calls that can be made now: by a top-level caller when no
\* call is in progress, else the next one the running func makes.  The
\* compilations are numbered in the order in which they start.
Pending ==
    IF stack = <<>>
    THEN IF nTop < MaxTopCalls
         THEN {[req |-> [w |-> wrapperOf[c], tp |-> TopTP(o)], extras |-> contexts[c],
                 _cls |-> ClsArg(wrapperOf[c], callerCls[c])] :
                 c \in {x \in Ctxs : x = 1 \/ nTop > 0}, o \in TopOrigins}
         ELSE {}
    ELSE IF Top.pc = "body" /\ raising = NoException /\ Top.i <= Len(Fields(Top.w, Top.tp))
         THEN {[req |-> Fields(Top.w, Top.tp)[Top.i], extras |-> Top.updated_extras,
                 _cls |-> ClsArg(Fields(Top.w, Top.tp)[Top.i].w, Top._cls)]}
         ELSE {}

\* the record of a top-level call: its request and the guard as it found it
TopCalled(p) ==
    IF stack = <<>>
    THEN Append(topCalls, [guard |-> p.extras.recursion_guard, w |-> p.req.w,
                           tp |-> p.req.tp,
                           entries |-> guards[p.extras.recursion_guard]])
    ELSE topCalls

\* A wrapper call hands `expr` back to its caller: a top-level caller keeps
\* it, a running func embeds it in the procedure body it is emitting and goes
\* on to its next field.
ReturnTo(callers, expr) ==
    /\ stack' = IF callers = <<>> THEN <<>>
                ELSE [callers EXCEPT ![Len(callers)] =
                        [@ EXCEPT !.body = Append(@, expr), !.i = @ + 1]]
    /\ outcome' = IF callers = <<>> THEN [kind |-> "returned", value |-> expr]
                  ELSE outcome

\* An exception leaves a wrapper call: it goes on propagating in the caller,
\* or reaches the top-level caller.
RaiseTo(callers, exc) ==
    /\ stack' = callers
    /\ raising' = IF callers = <<>> THEN NoException ELSE exc
    /\ outcome' = IF callers = <<>> THEN [kind |-> "raised", value |-> exc]
                  ELSE outcome

Returned(p, expr) ==
    [guard |-> p.extras.recursion_guard, w |-> p.req.w, tp |-> p.req.tp, value |-> expr]

\* CallHit that makes a new builder before it looks at the guard
CallHitBuilding ==
    \E p \in Pending :
      LET cls      == Key(p.req.w, p.req.tp)
          _fn_name == Get(guards[p.extras.recursion_guard], cls)
          expr     == CallExpr(_fn_name, p.req.tp)
      IN  /\ _fn_name # None
          /\ builders' = Append(builders, <<>>)
          /\ ReturnTo(stack, expr)
          /\ returns' = returns \cup {Returned(p, expr)}
          /\ lastRet' = {Returned(p, expr)}
          /\ nTop' = IF stack = <<>> THEN nTop + 1 ELSE nTop
          /\ topCalls' = TopCalled(p)
          /\ UNCHANGED <<wrapperOf, callerCls, contexts, guards, raising,
                         nFail, invoked, merged, failed>>

\* lines 52-55, 90: the key is in the guard; return the call expression
CallHit ==
    \E p \in Pending :
      LET cls      == Key(p.req.w, p.req.tp)
          _fn_name == Get(guards[p.extras.recursion_guard], cls)
          expr     == CallExpr(_fn_name, p.req.tp)
      IN  /\ _fn_name # None
          /\ ReturnTo(stack, expr)
          /\ returns' = returns \cup {Returned(p, expr)}
          /\ lastRet' = {Returned(p, expr)}
          /\ nTop' = IF stack = <<>> THEN nTop + 1 ELSE nTop
          /\ topCalls' = TopCalled(p)
          /\ UNCHANGED <<wrapperOf, callerCls, contexts, guards, builders, raising,
                         nFail, invoked, merged, failed>>

\* lines 52-68: the key is not in the guard; make the name and reserve it
CallMiss ==
    \E p \in Pending :
      LET cls      == Key(p.req.w, p.req.tp)
          g        == p.extras.recursion_guard
          _fn_name == ReservedName(p.req.w, p.req.tp, p.extras)
      IN  /\ Get(guards[g], cls) = None
          /\ guards' = [guards EXCEPT ![g] = Reserve(@, cls, _fn_name)]
          /\ stack' = Append(stack,
                        [w |-> p.req.w, tp |-> p.req.tp, extras |-> p.extras,
                         _cls |-> p._cls, shape |-> 0,
                         cls |-> cls, fn_name |-> _fn_name, pc |-> "reserved",
                         main_fn_gen |-> 0, new_fn_gen |-> 0,
                         updated_extras |-> p.extras, i |-> 1, body |-> <<>>])
          /\ nTop' = IF stack = <<>> THEN nTop + 1 ELSE nTop
          /\ lastRet' = {}
          /\ topCalls' = TopCalled(p)
          /\ UNCHANGED <<wrapperOf, callerCls, contexts, builders, raising, nFail,
                         invoked, returns, merged, failed, outcome>>

\* UpdatedExtras with line 76 forgotten: func is handed the caller's builder
UpdatedExtrasSameBuilder(extras, cls, new_fn_gen) ==
    [extras EXCEPT !.locals = {<<"cls", cls>>}]

\* lines 74-76: extras.copy() with fresh locals {'cls': cls} and the new builder
UpdatedExtras(extras, cls, new_fn_gen) ==
    [extras EXCEPT !.locals = {<<"cls", cls>>}, !.fn_gen = new_fn_gen]

\* lines 70-85 up to the call of func
Prepare ==
    /\ stack # <<>>
    /\ Top.pc = "reserved"
    /\ LET new_fn_gen == Len(builders) + 1
       IN  /\ builders' = Append(builders, <<>>)
           /\ stack' = [stack EXCEPT ![Len(stack)] =
                          [@ EXCEPT !.pc = "body",
                                    !.shape = CallShape(Top._cls),
                                    !.main_fn_gen = Top.extras.fn_gen,
                                    !.new_fn_gen = new_fn_gen,
                                    !.updated_extras =
                                       UpdatedExtras(Top.extras, Top.cls, new_fn_gen)]]
    /\ lastRet' = {}

\* lines 70-85: fresh builder and locals in a copy of extras, then func is called
Invoke ==
    /\ Prepare
    /\ CallShape(Top._cls) = Decorated[Top.w].co_argcount
    /\ invoked' = Append(invoked, <<Top.extras.recursion_guard, Top.cls>>)
    /\ UNCHANGED <<topCalls, wrapperOf, callerCls, contexts, guards, raising, nTop, nFail,
                   returns, merged, failed, outcome>>

\* lines 70-85: func is called with a number of arguments it does not take
InvokeTypeError ==
    /\ Prepare
    /\ CallShape(Top._cls) # Decorated[Top.w].co_argcount
    /\ raising' = "TypeError"
    /\ UNCHANGED <<topCalls, wrapperOf, callerCls, contexts, guards, nTop, nFail, invoked,
                   returns, merged, failed, outcome>>

FuncDone ==
    /\ stack # <<>>
    /\ Top.pc = "body"
    /\ raising = NoException
    /\ Top.i > Len(Fields(Top.w, Top.tp))

\* lines 85-90: func returned; the procedure is sealed in the new builder, the
\* new builder is merged into the main one and the call expression returned
FuncReturn ==
    /\ FuncDone
    /\ LET sealed == Append(builders[Top.new_fn_gen], Definition(Top))
           expr   == CallExpr(Top.fn_name, Top.tp)
           ret    == [guard |-> Top.extras.recursion_guard, w |-> Top.w,
                      tp |-> Top.tp, value |-> expr]
       IN  /\ ~Collides(builders[Top.main_fn_gen], sealed)
           /\ builders' = [builders EXCEPT
                             ![Top.new_fn_gen] = sealed,
                             ![Top.main_fn_gen] = Merge(@, sealed)]
           /\ merged' = merged \cup {<<Top.new_fn_gen, Top.main_fn_gen>>}
           /\ ReturnTo(Pop, expr)
           /\ returns' = returns \cup {ret}
           /\ lastRet' = {ret}
    /\ UNCHANGED <<topCalls, wrapperOf, callerCls, contexts, guards, raising, nTop, nFail, invoked, failed>>

\* lines 85-88: func returned, but the merge meets a name the main builder
\* already defines and raises
MergeCollision ==
    /\ FuncDone
    /\ LET sealed == Append(builders[Top.new_fn_gen], Definition(Top))
       IN  /\ Collides(builders[Top.main_fn_gen], sealed)
           /\ builders' = [builders EXCEPT ![Top.new_fn_gen] = sealed]
           /\ RaiseTo(Pop, "DuplicateProcedureError")
    /\ failed' = failed \cup {Top.new_fn_gen}
    /\ lastRet' = {}
    /\ UNCHANGED <<topCalls, wrapperOf, callerCls, contexts, guards, nTop, nFail, invoked, returns, merged>>

\* lines 81, 85: func raises while it compiles the type
FuncRaise ==
    /\ stack # <<>>
    /\ Top.pc = "body"
    /\ raising = NoException
    /\ nFail < MaxFailures
    /\ raising' = "CompilerError"
    /\ nFail' = nFail + 1
    /\ lastRet' = {}
    /\ UNCHANGED <<topCalls, wrapperOf, callerCls, contexts, guards, builders, stack, nTop, invoked,
                   returns, merged, failed, outcome>>

\* Unwind as if the merge of line 88 stood in a `finally:` block
UnwindMerging ==
    /\ stack # <<>>
    /\ raising # NoException
    /\ LET sealed == Append(builders[Top.new_fn_gen], Definition(Top))
       IN  builders' = [builders EXCEPT ![Top.new_fn_gen] = sealed,
                                        ![Top.main_fn_gen] = Merge(@, sealed)]
    /\ merged' = merged \cup {<<Top.new_fn_gen, Top.main_fn_gen>>}
    /\ failed' = failed \cup {Top.new_fn_gen}
    /\ RaiseTo(Pop, raising)
    /\ lastRet' = {}
    /\ UNCHANGED <<topCalls, wrapperOf, callerCls, contexts, guards, nTop, nFail, invoked, returns>>

\* lines 78-88 with an exception in flight: nothing catches it; the `with`
\* block seals what was emitted, line 88 is not reached, the call is left
Unwind ==
    /\ stack # <<>>
    /\ raising # NoException
    /\ builders' = [builders EXCEPT ![Top.new_fn_gen] = Append(@, Definition(Top))]
    /\ failed' = failed \cup {Top.new_fn_gen}
    /\ RaiseTo(Pop, raising)
    /\ lastRet' = {}
    /\ UNCHANGED <<topCalls, wrapperOf, callerCls, contexts, guards, nTop, nFail, invoked, returns, merged>>

Next ==
    \/ CallHit
    \/ CallMiss
    \/ Invoke
    \/ InvokeTypeError
    \/ FuncReturn
    \/ MergeCollision
    \/ FuncRaise
    \/ Unwind

Spec == Init /\ [][Next]_vars

-----------------------------------------------------------------------------
(* Helpers of the properties *)

\* the procedure a returned call expression names
Callee(r) == r.value[1]

\* how often func was invoked for key k under guard g
Invocations(g, k) == Cardinality({i \in 1..Len(invoked) : invoked[i] = <<g, k>>})

GuardNames(g) == {guards[g][k] : k \in DOMAIN guards[g]}

-----------------------------------------------------------------------------
(* C1 *)

\* func is invoked at most once per guard and cache key
AtMostOnceEach ==
    \A i, j \in 1..Len(invoked) : invoked[i] = invoked[j] => i = j

\* C1 as stated: under one recursion guard func is invoked at most once per
\* cache key, and any two calls whose descriptors have equal origin return
\* call expressions naming the same procedure.
C1_EqualOriginSameProcedure ==
    /\ AtMostOnceEach
    /\ \A r1, r2 \in returns :
         (r1.guard = r2.guard /\ r1.tp.origin = r2.tp.origin)
            => Callee(r1) = Callee(r2)

\* C1 (amended): under one recursion guard func is invoked at most once per
\* cache key, and any two calls with equal cache key (tp.origin in
\* non-generic mode, tp.args in generic mode) return call expressions naming
\* the same procedure, even when their name and field_i differ.
C1_EqualKeySameProcedure ==
    /\ AtMostOnceEach
    /\ \A r1, r2 \in returns :
         (r1.guard = r2.guard /\ Key(r1.w, r1.tp) = Key(r2.w, r2.tp))
            => Callee(r1) = Callee(r2)

\* two calls for one key with different name and field_i have returned, and
\* func ran once for the key
C1_Witness ==
    \E r1, r2 \in returns :
        /\ r1.guard = r2.guard
        /\ Key(r1.w, r1.tp) = Key(r2.w, r2.tp)
        /\ r1.tp.name # r2.tp.name
        /\ r1.tp.field_i # r2.tp.field_i
        /\ Callee(r1) = Callee(r2)
        /\ Invocations(r1.guard, Key(r1.w, r1.tp)) = 1

-----------------------------------------------------------------------------
(* C2 *)

\* C2 as stated: a top-level call whose compiler does not fail and is called
\* with the arguments it takes returns, and when the calls made so far have
\* returned each guard's builder holds exactly one procedure per distinct
\* type compiled under the guard; a request for a type that is being
\* compiled does not invoke func again.
C2_OneProcedurePerType ==
    /\ outcome.kind = "raised" => outcome.value \in {"CompilerError", "TypeError"}
    /\ raising \in {NoException, "CompilerError", "TypeError"}
    /\ AtMostOnceEach
    /\ (stack = <<>> /\ nFail = 0 /\ outcome.kind # "raised") =>
          \A c \in Ctxs :
             Cardinality(DefinedNames(builders[c])) = Cardinality(DOMAIN guards[c])

-----------------------------------------------------------------------------
(* C3 *)

\* C3: whenever func is running for a key, the guard holds the name reserved
\* for that key, and the entry was already there in the state before func
\* was invoked.
C3_ReservedBeforeInvoke ==
    /\ [](\A i \in 1..Len(stack) :
            stack[i].pc = "body" =>
               Get(guards[stack[i].extras.recursion_guard], stack[i].cls)
                  = stack[i].fn_name)
    /\ [][Len(invoked') > Len(invoked) =>
            Get(guards[invoked'[Len(invoked')][1]], invoked'[Len(invoked')][2]) # None]_vars

\* a name is reserved and func not yet invoked for it, below a running func
\* of the fn_name mode
C3_Witness ==
    /\ Len(stack) >= 2
    /\ Top.pc = "reserved"
    /\ Get(guards[Top.extras.recursion_guard], Top.cls) = Top.fn_name
    /\ Invocations(Top.extras.recursion_guard, Top.cls) = 0
    /\ Truthy(Decorated[stack[1].w].fn_name)
    /\ ~Truthy(Decorated[Top.w].fn_name)

-----------------------------------------------------------------------------
(* C4 *)

\* C4 as stated: the merge never meets a name collision, and every guard
\* maps distinct keys to distinct procedure names.
C4_GuardInjective ==
    /\ raising # "DuplicateProcedureError"
    /\ \A g \in Ctxs : \A k1, k2 \in DOMAIN guards[g] :
          guards[g][k1] = guards[g][k2] => k1 = k2

-----------------------------------------------------------------------------
(* C5 *)

\* C5 as stated: the two slots of Pair[int, str], compiled through the
\* generic-mode wrapper under one guard, get procedures with different names.
C5_PairSlotsDistinct ==
    \A r1, r2 \in returns :
        (/\ r1.guard = r2.guard
         /\ r1.w = "generic" /\ r2.w = "generic"
         /\ r1.tp.origin = "int" /\ r2.tp.origin = "str"
         /\ r1.tp.field_i = 0 /\ r2.tp.field_i = 1)
           => Callee(r1) # Callee(r2)

-----------------------------------------------------------------------------
(* C6 *)

\* C6 as stated: a loader compiler and a dumper compiler applied to the same
\* type of records with the same display name never reserve the same name.
C6_LoadDumpDistinct ==
    (/\ wrapperOf[1] = "load" /\ wrapperOf[2] = "dump"
     /\ contexts[1].cls_name = contexts[2].cls_name)
       => \A k \in (DOMAIN guards[1]) \cap (DOMAIN guards[2]) :
             k.kind = "origin" => guards[1][k] # guards[2][k]

-----------------------------------------------------------------------------
(* C7 *)

\* C7: a wrapper call that returns, on a hit or on a miss, returns exactly
\* "<name>(<tp.v()>)" with <name> the guard's entry for the call's key in the
\* state in which it returns.
C7_ReturnsGuardName ==
    \A r \in lastRet :
        r.value = <<Get(guards[r.guard], Key(r.w, r.tp)), "(", r.tp.v, ")">>

\* a hit has returned the name another descriptor reserved, which is not the
\* name its own descriptor would give
C7_Witness ==
    \E r \in lastRet :
        /\ Invocations(r.guard, Key(r.w, r.tp)) = 1
        /\ Callee(r) = guards[r.guard][Key(r.w, r.tp)]
        /\ Callee(r) # ReservedName(r.w, r.tp, contexts[r.guard])
        /\ stack # <<>>

-----------------------------------------------------------------------------
(* C8 *)

\* the part of func.__name__ the template uses, for the compilers of the model
RoleToken ==
    [load |-> <<"dataclass">>, dump |-> <<"dataclass">>,
     named |-> <<"dataclass">>, generic |-> <<"union">>]

\* '_load_<cls_name>_<role token>_<last>'
Template(cls_name, role, last) == <<"", "load">> \o cls_name \o role \o last

\* C8: a name reserved on a guard miss without fn_name is the template filled
\* with extras['cls_name'], the role token and, in generic mode, tp.field_i,
\* in non-generic mode, tp.name, whatever the guard holds and whatever was
\* called before.
C8_NameFromTemplate ==
    \A i \in 1..Len(stack) :
        LET f == stack[i]
        IN  ~Truthy(Decorated[f.w].fn_name) =>
               /\ f.fn_name =
                     Template(f.extras.cls_name, RoleToken[f.w],
                              IF Decorated[f.w].is_generic
                              THEN Str(f.tp.field_i) ELSE f.tp.name)
               /\ guards[f.extras.recursion_guard][f.cls] = f.fn_name

\* a generic-mode miss at field index 1 under a guard that already holds
\* other entries, in the second top-level call
C8_Witness ==
    /\ stack # <<>>
    /\ Decorated[Top.w].is_generic
    /\ Top.tp.field_i = 1
    /\ Top.fn_name = <<"", "load">> \o Top.extras.cls_name \o <<"union", "1">>
    /\ Cardinality(DOMAIN guards[Top.extras.recursion_guard]) >= 3
    /\ nTop = 2

-----------------------------------------------------------------------------
(* C9 *)

\* C9 as stated: two top-level compilations of records with different
\* display names, each with its own guard and builder, have no guard entry
\* in common and generate no procedure name in common.
C9_CompilationsDisjoint ==
    contexts[1].cls_name # contexts[2].cls_name =>
       /\ \A k \in (DOMAIN guards[1]) \cap (DOMAIN guards[2]) :
             guards[1][k] # guards[2][k]
       /\ GuardNames(1) \cap GuardNames(2) = {}
       /\ DefinedNames(builders[1]) \cap DefinedNames(builders[2]) = {}

-----------------------------------------------------------------------------
(* C10 *)

\* C10: while an exception of func propagates, every step leaves the
\* innermost wrapper call without returning and without merging, the
\* caller's builder stays as it was, and the exception goes on to the
\* enclosing call or reaches the top-level caller; no builder of a call the
\* exception passed through was ever merged into another.
C10_FailurePropagates ==
    /\ [](\A b \in failed : \A m \in merged : m[1] # b)
    /\ [][raising = "CompilerError" =>
            /\ stack' = Pop
            /\ returns' = returns
            /\ merged' = merged
            /\ builders'[Top.main_fn_gen] = builders[Top.main_fn_gen]
            /\ \A c \in Ctxs : builders'[c] = builders[c]
            /\ IF Pop = <<>>
               THEN outcome' = [kind |-> "raised", value |-> "CompilerError"]
               ELSE raising' = "CompilerError"]_vars

\* func failed three calls deep, after a nested type had been merged into
\* the failing call's builder, and the top-level caller got the exception
C10_Witness ==
    /\ stack = <<>>
    /\ outcome = [kind |-> "raised", value |-> "CompilerError"]
    /\ \E b1, b2, b3 \in failed : b1 < b2 /\ b2 < b3 /\ \E m \in merged : m[2] = b3
    /\ \A c \in Ctxs : builders[c] = <<>>

-----------------------------------------------------------------------------
(* C11 *)

\* the procedure names that reached a builder through a merge
MergedNames == UNION {DefinedNames(builders[m[1]]) : m \in merged}

\* C11 as stated: once a compilation has failed inside func, the guard holds
\* no entry whose procedure was never merged into a builder, and a wrapper
\* call that returns then names a merged procedure.
C11_NoHalfBuiltEntry ==
    (stack = <<>> /\ nFail > 0) =>
       /\ outcome = [kind |-> "raised", value |-> "CompilerError"] =>
             \A c \in Ctxs : \A k \in DOMAIN guards[c] : guards[c][k] \in MergedNames
       /\ \A r \in lastRet : Callee(r) \in MergedNames

-----------------------------------------------------------------------------
(* C12 *)

\* the procedures the call expressions in the bodies of a builder refer to
CalledNames(builder) ==
    UNION {{builder[i].body[j][1] : j \in 1..Len(builder[i].body)} :
             i \in 1..Len(builder)}

\* C12 as stated: when a successful top-level wrapper call returns, the
\* builder that was extras['fn_gen'] at its entry holds a definition for
\* every procedure name the call added to the guard, each nested builder was
\* merged once, and neither the returned call expression nor one in a
\* procedure body refers to a procedure missing from the top builder.
C12_TopBuilderComplete ==
    (stack = <<>> /\ lastRet # {}) =>
       LET t == topCalls[Len(topCalls)]
           top == builders[contexts[t.guard].fn_gen]
       IN  /\ \A k \in (DOMAIN guards[t.guard]) \ (DOMAIN t.entries) :
                 guards[t.guard][k] \in DefinedNames(top)
           /\ \A m1, m2 \in merged : m1[1] = m2[1] => m1 = m2
           /\ Cardinality(DefinedNames(top)) = Len(top)
           /\ \A r \in lastRet : Callee(r) \in DefinedNames(top)
           /\ CalledNames(top) \subseteq DefinedNames(top)

\* the same holds as long as no wrapper call was left by an exception
C12_CompleteWithoutFailure == failed = {} => C12_TopBuilderComplete

-----------------------------------------------------------------------------
(* C13 *)

\* the context the caller of frame i holds: the top-level caller's own
\* extras, or the updated_extras the calling func was given
CallerContext(i) ==
    IF i = 1 THEN contexts[stack[1].extras.recursion_guard]
    ELSE stack[i - 1].updated_extras

\* the builders some context other than frame i's updated_extras refers to
BuildersInUse(i) ==
    {contexts[c].fn_gen : c \in Ctxs}
       \cup {stack[j].new_fn_gen : j \in (1..Len(stack)) \ {i}}

\* C13: on a guard miss func receives a copy of the context whose fn_gen is
\* a fresh builder and whose locals is a fresh mapping, while recursion_guard
\* is the caller's own mapping: the caller's context keeps its fn_gen and
\* locals, and every entry written by a nested compilation is in the guard
\* the caller holds.
C13_NestedContext ==
    /\ \A i \in 1..Len(stack) :
          LET f == stack[i]
          IN  /\ f.extras = CallerContext(i)
              /\ f.pc = "body" =>
                    /\ f.updated_extras.recursion_guard = f.extras.recursion_guard
                    /\ f.updated_extras.cls_name = f.extras.cls_name
                    /\ f.updated_extras.fn_gen = f.new_fn_gen
                    /\ f.updated_extras.fn_gen \notin BuildersInUse(i)
                    /\ f.updated_extras.fn_gen # f.extras.fn_gen
                    /\ f.updated_extras.locals = {<<"cls", f.cls>>}
              /\ \A j \in i..Len(stack) :
                    stack[j].cls \in DOMAIN guards[f.extras.recursion_guard]
    /\ \A n \in 1..Len(invoked) : invoked[n][2] \in DOMAIN guards[invoked[n][1]]
    /\ \A c \in Ctxs : contexts[c].fn_gen = c /\ contexts[c].locals = {}

\* a func that has got back the result of a nested compilation which itself
\* compiled a nested type
C13_Witness ==
    /\ Len(stack) = 1
    /\ stack[1].pc = "body"
    /\ stack[1].i > 1
    /\ Len(invoked) >= 3
    /\ \A n \in 1..Len(invoked) : invoked[n][1] = stack[1].extras.recursion_guard
    /\ Cardinality(DOMAIN guards[stack[1].extras.recursion_guard]) >= 3

-----------------------------------------------------------------------------
(* C14 *)

\* the wrapper calls the func of a wrapper call makes
Children(r) == {Fields(r.w, r.tp)[i] : i \in 1..Len(Fields(r.w, r.tp))}

\* the wrapper calls a set of wrapper calls leads to, itself included
RECURSIVE TypeGraph(_)
TypeGraph(S) ==
    LET N == S \cup UNION {Children(r) : r \in S}
    IN  IF N = S THEN S ELSE TypeGraph(N)

\* the distinct cache keys in the type graph of each top-level call
GraphKeys ==
    [w \in RecordWrappers, o \in TopOrigins |->
        {Key(r.w, r.tp) : r \in TypeGraph({[w |-> w, tp |-> TopTP(o)]})}]

\* C14: during a top-level compile the number of wrapper calls in progress,
\* and so of func invocations in progress, never exceeds the number of
\* distinct cache keys in the type graph of the top-level type.
C14_DepthBounded ==
    stack # <<>> =>
       Len(stack) <= Cardinality(GraphKeys[stack[1].w, stack[1].tp.origin])

\* four func invocations in progress at once (R, S, T and a union of T)
C14_Witness ==
    /\ Len(stack) = 4
    /\ \A i \in 1..4 : stack[i].pc = "body"
    /\ Len(stack) < Cardinality(GraphKeys[stack[1].w, stack[1].tp.origin])

-----------------------------------------------------------------------------
(* C15 *)

\* C15: the recursion guard grows monotonically: no step of a wrapper call
\* removes an entry, and an entry once written for a key is never
\* overwritten with a different procedure name.
C15_GuardMonotone ==
    [][\A g \in Ctxs : \A k \in DOMAIN guards[g] :
          k \in DOMAIN guards'[g] /\ guards'[g][k] = guards[g][k]]_vars

\* a guard that has kept its entries through a failed compilation and a
\* second top-level call which wrote further entries to it
C15_Witness ==
    /\ stack = <<>>
    /\ Len(topCalls) = 2
    /\ topCalls[1].guard = topCalls[2].guard
    /\ nFail > 0
    /\ topCalls[2].entries # <<>>
    /\ Cardinality(DOMAIN guards[topCalls[2].guard])
          > Cardinality(DOMAIN topCalls[2].entries)

-----------------------------------------------------------------------------
(* C16 *)

\* two top-level calls, under guard 1 and then under guard 2, each found its
\* guard empty, for the same type with the same wrapper and record name, and
\* neither was left by an exception
SameTypeTwice ==
    /\ stack = <<>>
    /\ Len(topCalls) = 2
    /\ topCalls[1].guard = 1 /\ topCalls[2].guard = 2
    /\ topCalls[1].w = topCalls[2].w
    /\ topCalls[1].tp = topCalls[2].tp
    /\ contexts[1].cls_name = contexts[2].cls_name
    /\ callerCls[1] = callerCls[2]
    /\ failed = {}
    /\ nFail = 0

\* the call expressions returned to callers holding guard g
ReturnedUnder(g) == {[w |-> r.w, tp |-> r.tp, value |-> r.value] :
                        r \in {x \in returns : x.guard = g}}

\* C16: compiling the same record type twice, each time with a fresh empty
\* recursion guard and a fresh builder, reserves the same procedure names,
\* gives the same guard contents, the same definitions and the same returned
\* call expressions in both runs.
C16_Deterministic ==
    SameTypeTwice =>
       /\ guards[1] = guards[2]
       /\ GuardNames(1) = GuardNames(2)
       /\ builders[1] = builders[2]
       /\ ReturnedUnder(1) = ReturnedUnder(2)

\* the cyclic record R compiled twice, each run with its own guard and builder
C16_Witness ==
    /\ SameTypeTwice
    /\ topCalls[1].tp.origin = "R"
    /\ Cardinality(DOMAIN guards[2]) >= 5
    /\ Len(builders[2]) >= 5

-----------------------------------------------------------------------------
(* C17 *)

\* C17 as stated: on every guard miss func is called with the number of
\* arguments its declaration fixed when it was decorated, three as
\* func(_cls, tp, extras) for a method-shaped compiler and two as
\* func(tp, extras) for a plain one, whatever class context the call got,
\* so no call of func fails on its argument count.
C17_ShapeFromDeclaration ==
    /\ \A i \in 1..Len(stack) :
          stack[i].pc = "body" => stack[i].shape = Decorated[stack[i].w].co_argcount
    /\ raising # "TypeError"

-----------------------------------------------------------------------------
(* C18 *)

\* a step in which a wrapper call returns without having pushed a frame:
\* the call found its key in the guard
HitStep == lastRet' # {} /\ Len(stack') = Len(stack)

\* C18: a wrapper call whose key is already in the guard invokes no func,
\* creates and merges no builder, leaves the guard, the builders and the
\* caller's context as they were, and only returns the call expression for
\* the name the guard holds (which the calling func embeds in its body).
C18_HitChangesNothing ==
    [][HitStep =>
         /\ UNCHANGED <<guards, builders, contexts, invoked, merged, failed, raising>>
         /\ \A i \in 1..Len(stack) :
               [stack'[i] EXCEPT !.body = stack[i].body, !.i = stack[i].i] = stack[i]
         /\ \A r \in lastRet' :
               /\ Key(r.w, r.tp) \in DOMAIN guards[r.guard]
               /\ r.value = CallExpr(guards[r.guard][Key(r.w, r.tp)], r.tp)]_vars

\* a func has just got back the call expression for a type whose own
\* compilation is still in progress further down the recursion
C18_Witness ==
    /\ Len(stack) >= 2
    /\ \E r \in lastRet : \E i \in 1..(Len(stack) - 1) :
          /\ stack[i].cls = Key(r.w, r.tp)
          /\ stack[i].extras.recursion_guard = r.guard
    /\ Top.i > 1
    /\ Top.body # <<>>

=============================================================================
